---- MODULE Spec2Model ----
(***************************************************************************)
(* Model of goodreads_final.py: the scrape-and-persist ingestion pipeline  *)
(* (scrape_books / fetch_and_store_books / scrape_books_by_genre /         *)
(* fetch_book_details / place_book_in_mongo) and the read/delete routes    *)
(* (get_selected_books, remove_by_ID) over one MongoDB collection.         *)
(*                                                                         *)
(* Python values are tagged records [t, v, items]: t is the Python type,   *)
(* v is what str() renders, items the elements of a list.  A dict is a     *)
(* function from its keys to values.                                       *)
(***************************************************************************)
EXTENDS Integers, Sequences, FiniteSets, Bags, TLC

\* ------------------------------------------------------------------ bounds
MaxWorkers == 2      \* threads started by /scrape_books that the model follows
MaxGenres == 2       \* longest genres list in a request body
MaxLinks == 2        \* most .bookTitle anchors on a listing page
MaxOid == 2          \* remove_by_ID requests name the first MaxOid ObjectIds

Workers == 1..MaxWorkers
Genres == {"fiction", "poetry"}

\* ------------------------------------------------------------ Python values
Str(s) == [t |-> "str", v |-> s, items |-> <<>>]
Num(s) == [t |-> "int", v |-> s, items |-> <<>>]
NaN == [t |-> "float", v |-> "nan", items |-> <<>>]
List(xs) == [t |-> "list", v |-> "", items |-> xs]

\* str(x) of a scalar
PyStr(x) == Str(x.v)

\* a numeric column that holds a NaN is float64: 412 becomes 412.0
AsFloat(x) == IF x.t = "int" THEN [t |-> "float", v |-> x.v \o ".0", items |-> <<>>] ELSE x

SeqMap(Op(_), s) == [i \in 1..Len(s) |-> Op(s[i])]

\* ------------------------------------------------------ the catalogue site
BaseUrl == "https://www.goodreads.com"
Href(g, k) == "/book/show/" \o g \o "-" \o ToString(k)

\* the response to GET /shelf/show/<genre>: a status and the hrefs of its
\* .bookTitle anchors in document order
ListingPages(g) ==
    {[status |-> 404, anchors |-> <<>>]} \cup
    {[status |-> 200, anchors |-> [k \in 1..n |-> Href(g, k)]] : n \in 0..MaxLinks}

\* application/ld+json blocks: a JSON object is a function from the keys it
\* has; an author entry is a JSON object too
MetaSparse == <<>>
MetaFull ==
    [name |-> Str("Dune"),
     author |-> List(<<[name |-> Str("Herbert")]>>),
     publisher |-> Str("Ace"),
     numberOfPages |-> Num("412"),
     inLanguage |-> Str("English"),
     genre |-> Str("classics"),
     image |-> Str("dune.jpg"),
     isbn |-> Str("9780441013593")]
MetaOdd ==
    [name |-> Num("1984"),
     author |-> List(<<[name |-> Num("7")], [name |-> Str("Orwell")]>>),
     publisher |-> Num("42"),
     numberOfPages |-> Num("328")]
MetaNoName ==
    [name |-> Str("Emma"),
     author |-> List(<<[url |-> Str("/author/1")]>>)]
MetaEmptyGenre ==
    [name |-> Str("Ulysses"),
     genre |-> Str("")]

\* the response to GET <book_url>: script is "none" (no ld+json tag),
\* "malformed" (json.loads raises) or "json"
PageGone == [status |-> 404, script |-> "none", json |-> MetaSparse]
PageNoScript == [status |-> 200, script |-> "none", json |-> MetaSparse]
PageMalformed == [status |-> 200, script |-> "malformed", json |-> MetaSparse]
PageOf(m) == [status |-> 200, script |-> "json", json |-> m]

DetailPages ==
    {PageGone, PageNoScript, PageMalformed,
     PageOf(MetaSparse), PageOf(MetaFull), PageOf(MetaOdd), PageOf(MetaNoName),
     PageOf(MetaEmptyGenre)}

\* ---------------------------------------------------- fetch_book_details
Raise == [kind |-> "raise", value |-> <<>>]
Return(x) == [kind |-> "return", value |-> x]

ErrorDict(msg) == [k \in {"error"} |-> Str(msg)]

\* dict.get(key, default)
Get(d, key, default) == IF key \in DOMAIN d THEN d[key] ELSE default

BookKeys ==
    {"title", "authors", "publisher", "page_count", "language", "category",
     "thumbnail", "isbn", "link"}

AuthorList(json) == Get(json, "author", List(<<>>)).items

book_details(json, book_url, genre) ==
    [k \in BookKeys |->
        CASE k = "title" -> Get(json, "name", Str("N/A"))
          [] k = "authors" -> List([i \in 1..Len(AuthorList(json)) |-> AuthorList(json)[i]["name"]])
          [] k = "publisher" -> Get(json, "publisher", Str("N/A"))
          [] k = "page_count" -> Get(json, "numberOfPages", Str("N/A"))
          [] k = "language" -> Get(json, "inLanguage", Str("N/A"))
          [] k = "category" -> Get(json, "genre", Str(genre))
          [] k = "thumbnail" -> Get(json, "image", Str("N/A"))
          [] k = "isbn" -> Get(json, "isbn", Str("N/A"))
          [] k = "link" -> Str(book_url)]

fetch_book_details(page, book_url, genre) ==
    IF page.status # 200
    THEN Return(ErrorDict("Failed to fetch book details. Status code: " \o ToString(page.status)))
    ELSE IF page.script = "none"
    THEN Return(ErrorDict("Failed to find script tag with JSON data for " \o book_url))
    ELSE IF page.script = "malformed"
    THEN Raise
    ELSE IF \E i \in 1..Len(AuthorList(page.json)) : "name" \notin DOMAIN AuthorList(page.json)[i]
    THEN Raise
    ELSE Return(book_details(page.json, book_url, genre))

\* ------------------------------------------------------- pandas DataFrame
\* pd.DataFrame(rows): the columns are the union of the rows' keys, a row
\* without a key holds NaN there, and a column whose values are all numbers
\* is float64 as soon as one of them is NaN
Columns(rows) == UNION {DOMAIN rows[i] : i \in 1..Len(rows)}

NumericColumn(rows, k) ==
    /\ \E i \in 1..Len(rows) : k \in DOMAIN rows[i] /\ rows[i][k].t = "int"
    /\ \A i \in 1..Len(rows) : k \in DOMAIN rows[i] => rows[i][k].t \in {"int", "float"}

FloatColumn(rows, k) ==
    /\ NumericColumn(rows, k)
    /\ \E i \in 1..Len(rows) : k \notin DOMAIN rows[i] \/ rows[i][k].t = "float"

Cell(rows, i, k) ==
    IF k \notin DOMAIN rows[i] THEN NaN
    ELSE IF FloatColumn(rows, k) THEN AsFloat(rows[i][k])
    ELSE rows[i][k]

DataFrame(rows) == [i \in 1..Len(rows) |-> [k \in Columns(rows) |-> Cell(rows, i, k)]]

\* lines 31-33 of place_book_in_mongo on one row of the frame
NormalizeAuthors(x) == IF x.t = "list" THEN List(SeqMap(PyStr, x.items)) ELSE List(<<>>)

NormalizeRow(row) ==
    [k \in DOMAIN row |->
        CASE k = "authors" -> NormalizeAuthors(row[k])
          [] k \in {"publisher", "title"} -> PyStr(row[k])
          [] OTHER -> row[k]]

\* books_list of place_book_in_mongo; books_df['authors'] raises KeyError
\* when no row of the frame has that column
FrameRaises(rows) == ~ ({"authors", "publisher", "title"} \subseteq Columns(rows))
books_list(rows) == SeqMap(NormalizeRow, DataFrame(rows))

\* ------------------------------------------------------------------ state
VARIABLES
    pc,          \* per thread: where fetch_and_store_books stands
    genres,      \* per thread: the genres list captured from the request
    gi,          \* per thread: index of the genre the for loop is at
    pending,     \* per thread: anchors of the listing not yet fetched
    books,       \* per thread: the list scrape_books_by_genre is building
    all_books,   \* per thread: the list fetch_and_store_books aggregates
    skipped,     \* per thread: loop positions whose error line 173 printed
    calls,       \* per thread: invocations of place_book_in_mongo
    collection,  \* test.goodreads_books: ObjectId -> document (without _id)
    nextId,      \* the next ObjectId the driver generates
    indexes,     \* names of the collection's indexes
    http         \* the last request the Flask app answered, with its response

worker == <<pc, genres, gi, pending, books, all_books, skipped, calls>>
store == <<collection, nextId, indexes>>
vars == <<pc, genres, gi, pending, books, all_books, skipped, calls, collection, nextId, indexes, http>>

TextIndex == "authors_text_publisher_text_title_text"
IdIndex == "_id_"

RaisedPcs == {"raised_crawl", "raised_frame", "raised_drop", "raised_insert", "raised_create"}
PersistPcs == {"drop", "insert", "create"}
CrawlPcs == {"listing", "detail", "sleep", "finish"}

NoExchange == [route |-> "none", status |-> 0, message |-> "", rows |-> <<>>, contacted |-> FALSE]

Init ==
    /\ pc = [w \in Workers |-> "none"]
    /\ genres = [w \in Workers |-> <<>>]
    /\ gi = [w \in Workers |-> 0]
    /\ pending = [w \in Workers |-> <<>>]
    /\ books = [w \in Workers |-> <<>>]
    /\ all_books = [w \in Workers |-> <<>>]
    /\ skipped = [w \in Workers |-> {}]
    /\ calls = [w \in Workers |-> 0]
    /\ collection = <<>>
    /\ nextId = 1
    /\ indexes = {IdIndex}
    /\ http = NoExchange

\* -------------------------------------------------------- POST /scrape_books
RECURSIVE SeqsUpTo(_, _)
SeqsUpTo(S, n) ==
    IF n = 0 THEN {<<>>}
    ELSE SeqsUpTo(S, n - 1) \cup {Append(s, x) : s \in {t \in SeqsUpTo(S, n - 1) : Len(t) = n - 1}, x \in S}

\* request.json: a JSON object without the key, or with a genres list
NoGenresBody == [keys |-> {}, genres |-> <<>>]
GenresBody(gs) == [keys |-> {"genres"}, genres |-> gs]
Bodies == {NoGenresBody} \cup {GenresBody(gs) : gs \in SeqsUpTo(Genres, MaxGenres)}

Reply(route, status, message, rows, contacted) ==
    [route |-> route, status |-> status, message |-> message, rows |-> rows, contacted |-> contacted]

FreeWorkers == {w \in Workers : pc[w] = "none"}

\* threading.Thread(target=fetch_and_store_books, daemon=True).start()
StartThread(w, gs) ==
    /\ pc' = [pc EXCEPT ![w] = "listing"]
    /\ genres' = [genres EXCEPT ![w] = gs]
    /\ gi' = [gi EXCEPT ![w] = 1]
    /\ UNCHANGED <<pending, books, all_books, skipped, calls>>

\* mutant: the emptiness check of line 161 is missing
scrape_books_unchecked(body) ==
    /\ IF "genres" \notin body.keys
       THEN /\ http' = Reply("scrape_books", 400, "Genres are required in the input JSON", <<>>, FALSE)
            /\ UNCHANGED worker
       ELSE /\ FreeWorkers # {}
            /\ StartThread(CHOOSE w \in FreeWorkers : \A u \in FreeWorkers : w <= u, body.genres)
            /\ http' = Reply("scrape_books", 202, "Books are being fetched. Please wait...", <<>>, FALSE)
    /\ UNCHANGED store

\* mutant: a trigger is served only when no earlier run is still under way
scrape_books_serialized(body) ==
    /\ IF "genres" \notin body.keys
       THEN /\ http' = Reply("scrape_books", 400, "Genres are required in the input JSON", <<>>, FALSE)
            /\ UNCHANGED worker
       ELSE IF body.genres = <<>>
       THEN /\ http' = Reply("scrape_books", 400, "The genres list cannot be empty", <<>>, FALSE)
            /\ UNCHANGED worker
       ELSE /\ FreeWorkers # {}
            /\ \A u \in Workers : pc[u] \in {"none", "done"}
            /\ StartThread(CHOOSE w \in FreeWorkers : \A u \in FreeWorkers : w <= u, body.genres)
            /\ http' = Reply("scrape_books", 202, "Books are being fetched. Please wait...", <<>>, FALSE)
    /\ UNCHANGED store

scrape_books(body) ==
    /\ IF "genres" \notin body.keys
       THEN /\ http' = Reply("scrape_books", 400, "Genres are required in the input JSON", <<>>, FALSE)
            /\ UNCHANGED worker
       ELSE IF body.genres = <<>>
       THEN /\ http' = Reply("scrape_books", 400, "The genres list cannot be empty", <<>>, FALSE)
            /\ UNCHANGED worker
       ELSE /\ FreeWorkers # {}
            /\ StartThread(CHOOSE w \in FreeWorkers : \A u \in FreeWorkers : w <= u, body.genres)
            /\ http' = Reply("scrape_books", 202, "Books are being fetched. Please wait...", <<>>, FALSE)
    /\ UNCHANGED store

\* ---------------------------------------------------- fetch_and_store_books
\* what scrape_books_by_genre returned: a dict (the listing failed) or a list
DictResult(d) == [type |-> "dict", value |-> d]
ListResult(l) == [type |-> "list", value |-> l]

\* x == "error" for an element x of a list: only a str can equal a str
EqualsStr(x, s) == DOMAIN x = {"t", "v", "items"} /\ x.t = "str" /\ x.v = s

\* "error" in books: a key of the dict, or an element of the list
ErrorIn(r) ==
    IF r.type = "dict" THEN "error" \in DOMAIN r.value
    ELSE \E i \in 1..Len(r.value) : EqualsStr(r.value[i], "error")

\* mutant: the books of a genre are put in front of the earlier ones
Collect_prepend(w, r) ==
    IF ~ ErrorIn(r)
    THEN /\ all_books' = [all_books EXCEPT ![w] = r.value \o @]
         /\ UNCHANGED skipped
    ELSE /\ skipped' = [skipped EXCEPT ![w] = @ \cup {gi[w]}]
         /\ UNCHANGED all_books

\* lines 170-173: extend all_books, or print the error of the genre
Collect(w, r) ==
    IF ~ ErrorIn(r)
    THEN /\ all_books' = [all_books EXCEPT ![w] = @ \o r.value]
         /\ UNCHANGED skipped
    ELSE /\ skipped' = [skipped EXCEPT ![w] = @ \cup {gi[w]}]
         /\ UNCHANGED all_books

ListingError(g, status) ==
    ErrorDict("Failed to fetch data for genre " \o g \o ". Status code: " \o ToString(status))

\* mutant: a failed listing ends the for loop instead of skipping the genre
scrape_books_by_genre_abort(w, page) ==
    /\ pc[w] = "listing"
    /\ IF page.status # 200
       THEN /\ Collect(w, DictResult(ListingError(genres[w][gi[w]], page.status)))
            /\ pc' = [pc EXCEPT ![w] = "finish"]
            /\ UNCHANGED <<pending, books>>
       ELSE IF page.anchors = <<>>
       THEN /\ Collect(w, ListResult(<<>>))
            /\ pc' = [pc EXCEPT ![w] = "sleep"]
            /\ UNCHANGED <<pending, books>>
       ELSE /\ pending' = [pending EXCEPT ![w] = page.anchors]
            /\ books' = [books EXCEPT ![w] = <<>>]
            /\ pc' = [pc EXCEPT ![w] = "detail"]
            /\ UNCHANGED <<all_books, skipped>>
    /\ UNCHANGED <<genres, gi, calls, store, http>>

\* mutant: after a failed listing the loop takes the next genre at once,
\* without the sleep of line 174
scrape_books_by_genre_nosleep(w, page) ==
    /\ pc[w] = "listing"
    /\ IF page.status # 200
       THEN /\ Collect(w, DictResult(ListingError(genres[w][gi[w]], page.status)))
            /\ IF gi[w] < Len(genres[w])
               THEN gi' = [gi EXCEPT ![w] = @ + 1] /\ UNCHANGED pc
               ELSE pc' = [pc EXCEPT ![w] = "finish"] /\ UNCHANGED gi
            /\ UNCHANGED <<pending, books>>
       ELSE IF page.anchors = <<>>
       THEN /\ Collect(w, ListResult(<<>>))
            /\ pc' = [pc EXCEPT ![w] = "sleep"]
            /\ UNCHANGED <<pending, books, gi>>
       ELSE /\ pending' = [pending EXCEPT ![w] = page.anchors]
            /\ books' = [books EXCEPT ![w] = <<>>]
            /\ pc' = [pc EXCEPT ![w] = "detail"]
            /\ UNCHANGED <<all_books, skipped, gi>>
    /\ UNCHANGED <<genres, calls, store, http>>

\* requests.get on the listing of the current genre (lines 82-86), and the
\* return of scrape_books_by_genre when the listing failed or has no anchor
scrape_books_by_genre(w, page) ==
    /\ pc[w] = "listing"
    /\ IF page.status # 200
       THEN /\ Collect(w, DictResult(ListingError(genres[w][gi[w]], page.status)))
            /\ pc' = [pc EXCEPT ![w] = "sleep"]
            /\ UNCHANGED <<pending, books>>
       ELSE IF page.anchors = <<>>
       THEN /\ Collect(w, ListResult(<<>>))
            /\ pc' = [pc EXCEPT ![w] = "sleep"]
            /\ UNCHANGED <<pending, books>>
       ELSE /\ pending' = [pending EXCEPT ![w] = page.anchors]
            /\ books' = [books EXCEPT ![w] = <<>>]
            /\ pc' = [pc EXCEPT ![w] = "detail"]
            /\ UNCHANGED <<all_books, skipped>>
    /\ UNCHANGED <<genres, gi, calls, store, http>>

\* one iteration of the loop of lines 87-91, and the return of line 92 after
\* the last anchor
scrape_book(w, page) ==
    /\ pc[w] = "detail"
    /\ LET link == BaseUrl \o Head(pending[w])
           r == fetch_book_details(page, link, genres[w][gi[w]])
       IN IF r.kind = "raise"
          THEN /\ pc' = [pc EXCEPT ![w] = "raised_crawl"]
               /\ UNCHANGED <<pending, books, all_books, skipped>>
          ELSE IF Tail(pending[w]) # <<>>
          THEN /\ books' = [books EXCEPT ![w] = Append(@, r.value)]
               /\ pending' = [pending EXCEPT ![w] = Tail(@)]
               /\ UNCHANGED <<pc, all_books, skipped>>
          ELSE /\ Collect(w, ListResult(Append(books[w], r.value)))
               /\ books' = [books EXCEPT ![w] = <<>>]
               /\ pending' = [pending EXCEPT ![w] = <<>>]
               /\ pc' = [pc EXCEPT ![w] = "sleep"]
    /\ UNCHANGED <<genres, gi, calls, store, http>>

\* mutant: the books of a genre are inserted as soon as the genre is done
sleep_persisting(w) ==
    /\ pc[w] = "sleep"
    /\ IF gi[w] < Len(genres[w])
       THEN /\ gi' = [gi EXCEPT ![w] = @ + 1]
            /\ pc' = [pc EXCEPT ![w] = "listing"]
            /\ collection' = [i \in DOMAIN collection \cup (nextId..(nextId + Len(all_books[w]) - 1)) |->
                                  IF i \in DOMAIN collection THEN collection[i] ELSE all_books[w][i - nextId + 1]]
            /\ nextId' = nextId + Len(all_books[w])
       ELSE /\ pc' = [pc EXCEPT ![w] = "finish"]
            /\ UNCHANGED <<gi, collection, nextId>>
    /\ UNCHANGED <<genres, pending, books, all_books, skipped, calls, indexes, http>>

\* sleep(2) returns: the for loop takes the next genre or ends
sleep(w) ==
    /\ pc[w] = "sleep"
    /\ IF gi[w] < Len(genres[w])
       THEN /\ gi' = [gi EXCEPT ![w] = @ + 1]
            /\ pc' = [pc EXCEPT ![w] = "listing"]
       ELSE /\ pc' = [pc EXCEPT ![w] = "finish"]
            /\ UNCHANGED gi
    /\ UNCHANGED <<genres, pending, books, all_books, skipped, calls, store, http>>

\* mutant: place_book_in_mongo is called whether or not all_books is empty
fetch_and_store_books_end_unguarded(w) ==
    /\ pc[w] = "finish"
    /\ calls' = [calls EXCEPT ![w] = @ + 1]
    /\ pc' = [pc EXCEPT ![w] = IF FrameRaises(all_books[w]) THEN "raised_frame" ELSE "drop"]
    /\ UNCHANGED <<genres, gi, pending, books, all_books, skipped, store, http>>

\* lines 175-177 and lines 27-38 of place_book_in_mongo
fetch_and_store_books_end(w) ==
    /\ pc[w] = "finish"
    /\ IF all_books[w] = <<>>
       THEN /\ pc' = [pc EXCEPT ![w] = "done"]
            /\ UNCHANGED calls
       ELSE /\ calls' = [calls EXCEPT ![w] = @ + 1]
            /\ pc' = [pc EXCEPT ![w] = IF FrameRaises(all_books[w]) THEN "raised_frame" ELSE "drop"]
    /\ UNCHANGED <<genres, gi, pending, books, all_books, skipped, store, http>>

\* ------------------------------------------------------ place_book_in_mongo
\* every store operation either takes effect or raises (ok = FALSE) and then
\* has no effect

\* mutant: a lock around lines 45-55 that place_book_in_mongo does not have
drop_indexes_locked(w, ok) ==
    /\ pc[w] = "drop"
    /\ \A u \in Workers \ {w} : pc[u] \notin {"insert", "create"}
    /\ IF ok
       THEN /\ indexes' = {IdIndex}
            /\ pc' = [pc EXCEPT ![w] = "insert"]
       ELSE /\ pc' = [pc EXCEPT ![w] = "raised_drop"]
            /\ UNCHANGED indexes
    /\ UNCHANGED <<genres, gi, pending, books, all_books, skipped, calls, collection, nextId, http>>

\* collection.drop_indexes() drops every index but the one on _id
drop_indexes(w, ok) ==
    /\ pc[w] = "drop"
    /\ IF ok
       THEN /\ indexes' = {IdIndex}
            /\ pc' = [pc EXCEPT ![w] = "insert"]
       ELSE /\ pc' = [pc EXCEPT ![w] = "raised_drop"]
            /\ UNCHANGED indexes
    /\ UNCHANGED <<genres, gi, pending, books, all_books, skipped, calls, collection, nextId, http>>

Inserted(coll, first, docs) ==
    [i \in DOMAIN coll \cup (first..(first + Len(docs) - 1)) |->
        IF i \in DOMAIN coll THEN coll[i] ELSE docs[i - first + 1]]

\* mutant: an upsert keyed on the link instead of a plain insert
RECURSIVE Missing(_, _)
Missing(coll, docs) ==
    IF docs = <<>> THEN <<>>
    ELSE IF \E j \in DOMAIN coll : coll[j]["link"] = Head(docs)["link"]
    THEN Missing(coll, Tail(docs))
    ELSE <<Head(docs)>> \o Missing(coll, Tail(docs))

insert_many_upsert(w, ok) ==
    /\ pc[w] = "insert"
    /\ IF ok
       THEN /\ collection' = Inserted(collection, nextId, Missing(collection, books_list(all_books[w])))
            /\ nextId' = nextId + Len(Missing(collection, books_list(all_books[w])))
            /\ pc' = [pc EXCEPT ![w] = "create"]
       ELSE /\ pc' = [pc EXCEPT ![w] = "raised_insert"]
            /\ UNCHANGED <<collection, nextId>>
    /\ UNCHANGED <<genres, gi, pending, books, all_books, skipped, calls, indexes, http>>

\* mutant: documents inserted one by one, the first before the failure
insert_many_partial(w, ok) ==
    /\ pc[w] = "insert"
    /\ IF ok
       THEN /\ collection' = Inserted(collection, nextId, books_list(all_books[w]))
            /\ nextId' = nextId + Len(all_books[w])
            /\ pc' = [pc EXCEPT ![w] = "create"]
       ELSE /\ collection' = Inserted(collection, nextId, <<books_list(all_books[w])[1]>>)
            /\ nextId' = nextId + 1
            /\ pc' = [pc EXCEPT ![w] = "raised_insert"]
    /\ UNCHANGED <<genres, gi, pending, books, all_books, skipped, calls, indexes, http>>

\* mutant: a failed insert_many puts the text index back before it raises
insert_many_rollback(w, ok) ==
    /\ pc[w] = "insert"
    /\ IF ok
       THEN /\ collection' = Inserted(collection, nextId, books_list(all_books[w]))
            /\ nextId' = nextId + Len(all_books[w])
            /\ pc' = [pc EXCEPT ![w] = "create"]
            /\ UNCHANGED indexes
       ELSE /\ pc' = [pc EXCEPT ![w] = "raised_insert"]
            /\ indexes' = indexes \cup {TextIndex}
            /\ UNCHANGED <<collection, nextId>>
    /\ UNCHANGED <<genres, gi, pending, books, all_books, skipped, calls, http>>

insert_many(w, ok) ==
    /\ pc[w] = "insert"
    /\ IF ok
       THEN /\ collection' = Inserted(collection, nextId, books_list(all_books[w]))
            /\ nextId' = nextId + Len(all_books[w])
            /\ pc' = [pc EXCEPT ![w] = "create"]
       ELSE /\ pc' = [pc EXCEPT ![w] = "raised_insert"]
            /\ UNCHANGED <<collection, nextId>>
    /\ UNCHANGED <<genres, gi, pending, books, all_books, skipped, calls, indexes, http>>

\* mutant: every thread builds the text index under a name of its own
create_index_per_thread(w, ok) ==
    /\ pc[w] = "create"
    /\ IF ok
       THEN /\ indexes' = indexes \cup {TextIndex \o "_" \o ToString(w)}
            /\ pc' = [pc EXCEPT ![w] = "done"]
       ELSE /\ pc' = [pc EXCEPT ![w] = "raised_create"]
            /\ UNCHANGED indexes
    /\ UNCHANGED <<genres, gi, pending, books, all_books, skipped, calls, collection, nextId, http>>

create_index(w, ok) ==
    /\ pc[w] = "create"
    /\ IF ok
       THEN /\ indexes' = indexes \cup {TextIndex}
            /\ pc' = [pc EXCEPT ![w] = "done"]
       ELSE /\ pc' = [pc EXCEPT ![w] = "raised_create"]
            /\ UNCHANGED indexes
    /\ UNCHANGED <<genres, gi, pending, books, all_books, skipped, calls, collection, nextId, http>>

\* ------------------------------------------------- GET /get_selected_books
ObjectId(n) == [t |-> "ObjectId", v |-> "65f00000000000000000000" \o ToString(n), items |-> <<>>]

RECURSIVE Ascending(_)
Ascending(ids) ==
    IF ids = {} THEN <<>>
    ELSE LET m == CHOOSE i \in ids : \A j \in ids : i <= j
         IN <<m>> \o Ascending(ids \ {m})

WithId(coll, i) ==
    [k \in DOMAIN coll[i] \cup {"_id"} |-> IF k = "_id" THEN ObjectId(i) ELSE coll[i][k]]

\* list(collection.find()): the documents in insertion order
find(coll) == [n \in 1..Cardinality(DOMAIN coll) |-> WithId(coll, Ascending(DOMAIN coll)[n])]

\* lines 189-190
IdToStr(row) == [k \in DOMAIN row |-> IF k = "_id" THEN PyStr(row[k]) ELSE row[k]]

\* df.to_dict(orient="records") of lines 186-192
selected_books(coll) == SeqMap(IdToStr, DataFrame(find(coll)))

get_selected_books(ok) ==
    /\ IF ok
       THEN http' = Reply("get_selected_books", 200, "", selected_books(collection), TRUE)
       ELSE http' = Reply("get_selected_books", 500, "", <<>>, TRUE)
    /\ UNCHANGED <<worker, store>>

\* ------------------------------------------------------- POST /remove_by_ID
None == [t |-> "NoneType", v |-> "None", items |-> <<>>]

\* the _id of the request body: absent, a str or a number
RawIds ==
    {None, Str(""), Str("not-a-valid-id"), Num("5")} \cup {PyStr(ObjectId(n)) : n \in 1..MaxOid}

Falsy(x) == x = None \/ x = Str("") \/ x = Num("0")
ValidOidStr(x) == x.t = "str" /\ \E n \in 1..MaxOid : x = PyStr(ObjectId(n))
OidOf(x) == CHOOSE n \in 1..MaxOid : x = PyStr(ObjectId(n))

\* mutant: neither the emptiness check nor the except clause
check_correct_mongo_ID_unguarded(x) ==
    IF x.t = "str" /\ ValidOidStr(x) THEN Return(ObjectId(OidOf(x))) ELSE Raise

\* ObjectId(x) raises InvalidId on a str of another format, which is caught,
\* and TypeError on a value that is no str, which is not
check_correct_mongo_ID(x) ==
    IF Falsy(x) THEN Return(None)
    ELSE IF x.t # "str" THEN Raise
    ELSE IF ValidOidStr(x) THEN Return(ObjectId(OidOf(x)))
    ELSE Return(None)

WrongId == "Wrong ID, nothing happened!"

\* mutant: the result of delete_one is not looked at
deleted_count_ignored(coll, n) == 1

\* mutant: delete_many on the link of the document instead of delete_one
delete_many_by_link(coll, n) ==
    [i \in {j \in DOMAIN coll : n \notin DOMAIN coll \/ coll[j]["link"] # coll[n]["link"]} |-> coll[i]]

\* collection.delete_one({"_id": ObjectId(n)})
delete_one(coll, n) == [i \in DOMAIN coll \ {n} |-> coll[i]]
deleted_count(coll, n) == IF n \in DOMAIN coll THEN 1 ELSE 0

remove_by_ID(raw, ok) ==
    /\ LET id == check_correct_mongo_ID(raw)
       IN IF id.kind = "raise"
          THEN /\ http' = Reply("remove_by_ID", 500, "", <<>>, FALSE)
               /\ UNCHANGED collection
          ELSE IF id.value = None
          THEN /\ http' = Reply("remove_by_ID", 200, WrongId, <<>>, FALSE)
               /\ UNCHANGED collection
          ELSE IF ~ ok
          THEN /\ http' = Reply("remove_by_ID", 500, "", <<>>, TRUE)
               /\ UNCHANGED collection
          ELSE /\ collection' = delete_one(collection, OidOf(raw))
               /\ http' = Reply("remove_by_ID", 200,
                                IF deleted_count(collection, OidOf(raw)) > 0 THEN "Book removed" ELSE WrongId,
                                <<>>, TRUE)
    /\ UNCHANGED <<worker, nextId, indexes>>

\* ------------------------------------------------------------ specification
Accepted(body) == "genres" \in body.keys /\ body.genres # <<>>

\* One ingestion run: a single accepted trigger, crawling a site that may
\* serve any listing and any detail page, against a store that may fail at
\* any operation; reads arrive at any time.
Next ==
    \/ \E body \in Bodies : (Accepted(body) => FreeWorkers = Workers) /\ scrape_books(body)
    \/ \E w \in Workers : pc[w] = "listing" /\ \E page \in ListingPages(genres[w][gi[w]]) : scrape_books_by_genre(w, page)
    \/ \E w \in Workers, page \in DetailPages : scrape_book(w, page)
    \/ \E w \in Workers : sleep(w)
    \/ \E w \in Workers : fetch_and_store_books_end(w)
    \/ \E w \in Workers, ok \in BOOLEAN : drop_indexes(w, ok)
    \/ \E w \in Workers, ok \in BOOLEAN : insert_many(w, ok)
    \/ \E w \in Workers, ok \in BOOLEAN : create_index(w, ok)
    \/ \E ok \in BOOLEAN : get_selected_books(ok)

Spec == Init /\ [][Next]_vars

\* Concurrent runs with reads and deletes arriving at any time: every trigger
\* starts its own thread, each run crawls one genre whose listing fails or
\* shows at most one book, and the store does not fail.
ShortListingPages(g) == {page \in ListingPages(g) : Len(page.anchors) <= 1}
SingleGenreBodies == {NoGenresBody, GenresBody(<<>>)} \cup {GenresBody(<<g>>) : g \in Genres}

NextThreads ==
    \/ \E body \in SingleGenreBodies : scrape_books(body)
    \/ \E w \in Workers : pc[w] = "listing" /\ \E page \in ShortListingPages(genres[w][gi[w]]) : scrape_books_by_genre(w, page)
    \/ \E w \in Workers : scrape_book(w, PageOf(MetaSparse))
    \/ \E w \in Workers : sleep(w)
    \/ \E w \in Workers : fetch_and_store_books_end(w)
    \/ \E w \in Workers : drop_indexes(w, TRUE)
    \/ \E w \in Workers : insert_many(w, TRUE)
    \/ \E w \in Workers : create_index(w, TRUE)
    \/ get_selected_books(TRUE)
    \/ \E raw \in RawIds : remove_by_ID(raw, TRUE)

SpecThreads == Init /\ [][NextThreads]_vars

\* Runs against a store that may fail at any step of place_book_in_mongo:
\* every trigger starts its own thread, each run crawls one genre whose
\* listing fails or shows at most one book, and deletes arrive at any time.
NextFailures ==
    \/ \E g \in Genres : scrape_books(GenresBody(<<g>>))
    \/ \E w \in Workers : pc[w] = "listing" /\ \E page \in ShortListingPages(genres[w][gi[w]]) : scrape_books_by_genre(w, page)
    \/ \E w \in Workers : scrape_book(w, PageOf(MetaSparse))
    \/ \E w \in Workers : sleep(w)
    \/ \E w \in Workers : fetch_and_store_books_end(w)
    \/ \E w \in Workers, ok \in BOOLEAN : drop_indexes(w, ok)
    \/ \E w \in Workers, ok \in BOOLEAN : insert_many(w, ok)
    \/ \E w \in Workers, ok \in BOOLEAN : create_index(w, ok)
    \/ \E n \in 1..MaxOid : remove_by_ID(PyStr(ObjectId(n)), TRUE)

SpecFailures == Init /\ [][NextFailures]_vars

\* ------------------------------------------------------------------ claims
\* where a thread stands
Completed(w) == pc[w] \in ({"finish", "done"} \cup PersistPcs \cup (RaisedPcs \ {"raised_crawl"}))
Persisted(w) == pc[w] = "done" /\ calls[w] = 1
IsError(entry) == "error" \in DOMAIN entry
StoreUntouched == collection = <<>> /\ nextId = 1 /\ indexes = {IdIndex}

\* C1: a book whose detail page fails to fetch or lacks the metadata block is
\* excluded from the batch handed to place_book_in_mongo: no entry of
\* all_books is the error result of fetch_book_details.
C1_FailedBooksExcluded ==
    \A w \in Workers : \A i \in 1..Len(all_books[w]) : ~ IsError(all_books[w][i])

\* C2: a run that has processed all its genres calls place_book_in_mongo
\* exactly once if its batch is non-empty, and only after the last genre; if
\* the batch is empty it never calls it and the store is left as it was.
C2_PersistOnceIffNonEmpty ==
    \A w \in Workers :
        /\ calls[w] \in {0, 1}
        /\ calls[w] = 1 => Completed(w) /\ pc[w] # "finish" /\ gi[w] = Len(genres[w])
        /\ Completed(w) /\ pc[w] # "finish" => (calls[w] = 1 <=> all_books[w] # <<>>)
        /\ Completed(w) /\ all_books[w] = <<>> => StoreUntouched

C2_Witness ==
    \E w \in Workers : Persisted(w) /\ Len(genres[w]) = 2 /\ collection # <<>>

\* a run of two genres ended with an empty batch: nothing was called
C2_WitnessEmpty ==
    \E w \in Workers : pc[w] = "done" /\ Len(genres[w]) = 2 /\ all_books[w] = <<>> /\ calls[w] = 0

\* the links of the books a listing of genre g can show
LinksOf(g) == {Str(BaseUrl \o Href(g, k)) : k \in 1..MaxLinks}
OccursOnce(gs, i) == \A j \in 1..Len(gs) : j # i => gs[j] # gs[i]

\* C3: a genre whose listing fetch fails is logged and skipped, and nothing
\* else: it adds no entry to the batch, the run still visits every later genre
\* (it ends only at the last one, and never by the failure), and what the
\* other genres gave is what gets inserted.
C3_ListingFailureSkipsGenreOnly ==
    \A w \in Workers :
        /\ skipped[w] \subseteq 1..gi[w]
        /\ Len(all_books[w]) <= MaxLinks * Cardinality((1..gi[w]) \ skipped[w])
        /\ \A i \in skipped[w] : OccursOnce(genres[w], i) =>
               \A n \in 1..Len(all_books[w]) :
                   ~ IsError(all_books[w][n]) => all_books[w][n]["link"] \notin LinksOf(genres[w][i])
        /\ Completed(w) => gi[w] = Len(genres[w])
        /\ pc[w] = "raised_crawl" => gi[w] \notin skipped[w]
        /\ Persisted(w) => collection = Inserted(<<>>, 1, books_list(all_books[w]))

C3_Witness ==
    \E w \in Workers :
        /\ Persisted(w)
        /\ genres[w] = <<"fiction", "poetry">>
        /\ skipped[w] = {1}
        /\ Len(all_books[w]) = 2
        /\ Cardinality(DOMAIN collection) = 2

\* C4: a trigger whose genres list is missing or empty is answered with 400
\* and starts no thread: the request changes neither a thread nor the store,
\* and no thread ever runs on an empty genres list.
C4_InvalidTriggerRejected ==
    /\ [](\A w \in Workers : pc[w] # "none" => genres[w] # <<>>)
    /\ [][\A body \in Bodies :
            (~ Accepted(body) /\ scrape_books(body)) =>
                /\ http'.route = "scrape_books"
                /\ http'.status = 400
                /\ UNCHANGED <<worker, store>>]_vars

C4_Witness ==
    /\ http.route = "scrape_books"
    /\ http.status = 400
    /\ http.message = "The genres list cannot be empty"
    /\ \A w \in Workers : pc[w] = "none"
    /\ StoreUntouched

\* the documents of a collection, or the rows of a batch, as a bag
DocBag(f) == [d \in {f[i] : i \in DOMAIN f} |-> Cardinality({i \in DOMAIN f : f[i] = d})]

RECURSIVE BatchesOf(_)
BatchesOf(ws) ==
    IF ws = {} THEN EmptyBag
    ELSE LET w == CHOOSE x \in ws : TRUE
         IN DocBag(books_list(all_books[w])) (+) BatchesOf(ws \ {w})

Quiescent == \A w \in Workers : pc[w] \notin PersistPcs
NoDeletes == DOMAIN collection = 1..(nextId - 1)

\* C5: place_book_in_mongo holds no lock: whatever the other threads are
\* doing, a thread at drop_indexes, insert_many or create_index can take that
\* step, so the three steps of two threads interleave in every order.
C5_PersistStepsInterleave ==
    \A w \in Workers :
        /\ pc[w] = "drop" => ENABLED drop_indexes(w, TRUE)
        /\ pc[w] = "insert" => ENABLED insert_many(w, TRUE)
        /\ pc[w] = "create" => ENABLED create_index(w, TRUE)

\* (i) one thread has finished its persist and the index it rebuilt is gone,
\* dropped by the other thread, which has not inserted yet
C5_Witness ==
    \E a, b \in Workers :
        /\ a # b
        /\ Persisted(a)
        /\ pc[b] = "insert"
        /\ TextIndex \notin indexes
        /\ collection # <<>>

\* (ii) one thread's documents are in the collection with no text index while
\* the other thread stands between its drop and its rebuild
C5_WitnessInsert ==
    \E a, b \in Workers :
        /\ a # b
        /\ pc[a] = "create"
        /\ pc[b] = "insert"
        /\ TextIndex \notin indexes
        /\ collection # <<>>

\* C6: when no persist is under way and nothing was deleted, the collection
\* holds one document per row of every batch persisted so far, duplicates
\* included, and, once a persist has completed, exactly one text index
\* beside the index on _id.
C6_PersistsAccumulate ==
    (Quiescent /\ NoDeletes) =>
        /\ DocBag(collection) = BatchesOf({w \in Workers : Persisted(w)})
        /\ (\E w \in Workers : Persisted(w)) => indexes = {IdIndex, TextIndex}

C6_Witness ==
    /\ Persisted(1) /\ genres[1] = <<"fiction">>
    /\ Persisted(2) /\ genres[2] = <<"poetry">>
    /\ Cardinality(DOMAIN collection) = 2
    /\ indexes = {IdIndex, TextIndex}

\* two runs of the same genre: the second batch repeats the first
C6_WitnessDuplicates ==
    /\ Persisted(1) /\ Persisted(2)
    /\ Cardinality(DOMAIN collection) = 2
    /\ collection[1] = collection[2]

\* C7: remove_by_ID on the id of a document of the collection answers "Book
\* removed" and removes that document and no other; on a well-formed id that
\* matches nothing it answers "Wrong ID" and changes nothing; a removed id
\* never comes back, so every later call on it is of the second kind.
C7_DeleteOnce ==
    /\ [][\A n \in 1..MaxOid :
            (http'.route = "remove_by_ID" /\ remove_by_ID(PyStr(ObjectId(n)), TRUE)) =>
                IF n \in DOMAIN collection
                THEN /\ http'.message = "Book removed"
                     /\ DOMAIN collection' = DOMAIN collection \ {n}
                     /\ \A i \in DOMAIN collection' : collection'[i] = collection[i]
                ELSE /\ http'.message = WrongId
                     /\ http'.status = 200
                     /\ collection' = collection]_vars
    /\ [][\A n \in 1..(nextId - 1) : n \notin DOMAIN collection => n \notin DOMAIN collection']_vars

\* both ids a request can name were issued and removed, and the last request
\* named one of them again
C7_Witness ==
    /\ nextId > MaxOid
    /\ \A n \in 1..MaxOid : n \notin DOMAIN collection
    /\ http.route = "remove_by_ID"
    /\ http.contacted
    /\ http.message = WrongId

RoundTrips(row, orig, i) ==
    /\ DOMAIN row = BookKeys \cup {"_id"}
    /\ row["_id"] = PyStr(ObjectId(i))
    /\ row["title"] = PyStr(orig["title"])
    /\ row["authors"] = NormalizeAuthors(orig["authors"])
    /\ row["publisher"] = PyStr(orig["publisher"])
    /\ row["category"] = orig["category"]
    /\ row["isbn"] = orig["isbn"]
    /\ row["link"] = orig["link"]

\* C9: every record of a persisted batch comes back from get_selected_books
\* with title, authors, publisher, category, isbn and link equal to the
\* original's after str(), and with nothing added but the _id as a string.
C9_RoundTrip ==
    (http.route = "get_selected_books" /\ http.status = 200 /\ http.rows # <<>>) =>
        /\ Len(http.rows) = Len(all_books[1])
        /\ \A i \in 1..Len(http.rows) :
               ~ IsError(all_books[1][i]) => RoundTrips(http.rows[i], all_books[1][i], i)

\* the same round trip for the batches in which no book failed
C9_RoundTripOfCleanBatch ==
    (http.route = "get_selected_books" /\ http.status = 200 /\ http.rows # <<>>
        /\ \A i \in 1..Len(all_books[1]) : ~ IsError(all_books[1][i])) =>
        /\ Len(http.rows) = Len(all_books[1])
        /\ \A i \in 1..Len(http.rows) : RoundTrips(http.rows[i], all_books[1][i], i)

\* C10 as stated: a thread that an uncaught exception ended, in the crawl or
\* in a store operation, has stored none of its records.
C10_RaisedStoresNothing ==
    \A w \in Workers : pc[w] \in RaisedPcs => collection = <<>>

\* C10 as amended: a thread that an uncaught exception ended takes no further
\* step, its persist never completes and the response is untouched; none of
\* its records is stored, unless the exception came from create_index, when
\* the whole batch is inserted and the text index is missing.
C10_RaisedTerminates ==
    /\ [](\A w \in Workers :
            /\ pc[w] \in RaisedPcs \ {"raised_create"} => collection = <<>> /\ nextId = 1
            /\ pc[w] = "raised_create" =>
                   /\ collection = Inserted(<<>>, 1, books_list(all_books[w]))
                   /\ TextIndex \notin indexes)
    /\ [][\A w \in Workers :
            /\ pc[w] \in RaisedPcs => pc'[w] = pc[w] /\ store' = store
            /\ (pc[w] \notin RaisedPcs /\ pc'[w] \in RaisedPcs) => http' = http]_vars

\* the second genre raised after the first had given records
C10_Witness ==
    \E w \in Workers :
        /\ pc[w] = "raised_crawl"
        /\ gi[w] = 2
        /\ all_books[w] # <<>>
        /\ http.status = 202
        /\ collection = <<>>

\* the entries of a list that are book records, in the order of the list
RECURSIVE Records(_)
Records(s) ==
    IF s = <<>> THEN <<>>
    ELSE IF IsError(Head(s)) THEN Records(Tail(s))
    ELSE <<Head(s)>> \o Records(Tail(s))

\* what a thread has extracted so far: the genres returned, then the genre
\* whose loop is running
Extracted(w) == Records(all_books[w] \o books[w])

\* the links a run can discover up to its current genre, in discovery order:
\* genre by genre, and within a genre in the order of the listing's anchors
RECURSIVE Discoverable(_, _)
Discoverable(gs, n) ==
    IF n = 0 THEN <<>>
    ELSE Discoverable(gs, n - 1) \o [k \in 1..MaxLinks |-> Str(BaseUrl \o Href(gs[n], k))]

\* s can be read off t from left to right, each element of t used once
RECURSIVE IsSubSeq(_, _)
IsSubSeq(s, t) ==
    IF s = <<>> THEN TRUE
    ELSE IF t = <<>> THEN FALSE
    ELSE IF Head(s) = Head(t) THEN IsSubSeq(Tail(s), Tail(t))
    ELSE IsSubSeq(s, Tail(t))

IsPrefix(s, t) == Len(s) <= Len(t) /\ SubSeq(t, 1, Len(s)) = s

\* C11: the records of the batch handed to place_book_in_mongo stand in
\* discovery order: an earlier genre's before a later genre's and, within a
\* genre, in the order of the listing's anchors, none twice; aggregation only
\* ever appends: a record extracted goes to the end of what was extracted
\* before, and no later step removes or moves it.
C11_DiscoveryOrder ==
    /\ [](\A w \in Workers :
            /\ IsSubSeq([i \in 1..Len(Extracted(w)) |-> Extracted(w)[i]["link"]],
                        Discoverable(genres[w], gi[w]))
            /\ calls[w] = 1 => books[w] = <<>>)
    /\ [][\A w \in Workers :
            /\ IsPrefix(Extracted(w), Extracted(w)')
            /\ Len(Extracted(w)') <= Len(Extracted(w)) + 1
            /\ \A page \in DetailPages :
                   LET r == fetch_book_details(page, BaseUrl \o Head(pending[w]), genres[w][gi[w]])
                   IN (pc[w] = "detail" /\ r.kind = "return" /\ ~ IsError(r.value)
                          /\ scrape_book(w, page)) =>
                       Extracted(w)' = Append(Extracted(w), r.value)]_vars

\* two genres of two books each, one book of the first genre failed: the
\* batch was handed over and inserted
C11_Witness ==
    \E w \in Workers :
        /\ Persisted(w)
        /\ genres[w] = <<"fiction", "poetry">>
        /\ Len(all_books[w]) = 4
        /\ Len(Records(all_books[w])) = 3
        /\ IsError(all_books[w][2])

\* the batch place_book_in_mongo receives: books_df of line 176
BatchHanded(w) == DataFrame(all_books[w])

\* the genre key of the metadata block, when the block has one
SourceGenres == {page.json["genre"] : page \in {p \in DetailPages : "genre" \in DOMAIN p.json}}

\* C12: every entry of a batch handed to place_book_in_mongo has a category,
\* and it is not empty: it is the genre of the book's metadata block or else
\* one of the genres the run was asked for.
C12_CategoryNeverEmpty ==
    \A w \in Workers : calls[w] = 1 =>
        \A i \in 1..Len(BatchHanded(w)) :
            /\ "category" \in DOMAIN BatchHanded(w)[i]
            /\ BatchHanded(w)[i]["category"] \notin {NaN, Str("")}
            /\ BatchHanded(w)[i]["category"] \in SourceGenres \cup {Str(genres[w][n]) : n \in 1..Len(genres[w])}

\* the same for the book records of the batch alone, leaving out the entries
\* of the books that failed
C12_CategoryOfRecords ==
    \A w \in Workers : calls[w] = 1 =>
        \A i \in 1..Len(all_books[w]) :
            ~ IsError(all_books[w][i]) => all_books[w][i]["category"] # Str("")

\* what line 108 does: the genre key of the block if it is there, whatever
\* its value, and the requested genre if it is not
C12_CategoryFallback ==
    [][\A w \in Workers : \A page \in DetailPages :
            LET r == fetch_book_details(page, BaseUrl \o Head(pending[w]), genres[w][gi[w]])
            IN (pc[w] = "detail" /\ r.kind = "return" /\ ~ IsError(r.value) /\ scrape_book(w, page)) =>
                   Extracted(w)'[Len(Extracted(w)')]["category"] =
                       IF "genre" \in DOMAIN page.json THEN page.json["genre"] ELSE Str(genres[w][gi[w]])]_vars

\* a thread that is running: started and neither returned nor raised
Active(w) == pc[w] \in CrawlPcs \cup PersistPcs

\* C13: a trigger with a non-empty genres list is answered 202 in the step
\* that starts its thread, before the thread has fetched or stored anything,
\* and leaves the other threads and the store alone; whatever the threads
\* already started are doing, the next trigger is accepted in the same way,
\* so the crawl and persist steps of two runs overlap.
C13_AcceptedWithoutWaiting ==
    /\ [](\A g \in Genres : FreeWorkers # {} => ENABLED scrape_books(GenresBody(<<g>>)))
    /\ [][\A body \in SingleGenreBodies :
            (http'.route = "scrape_books" /\ Accepted(body) /\ scrape_books(body)) =>
                /\ http'.status = 202
                /\ UNCHANGED store
                /\ \E w \in FreeWorkers :
                       /\ pc'[w] = "listing"
                       /\ genres'[w] = body.genres
                       /\ all_books'[w] = <<>>
                       /\ calls'[w] = 0
                       /\ \A u \in Workers \ {w} : pc'[u] = pc[u] /\ all_books'[u] = all_books[u]]_vars

\* the second trigger was accepted while the first run was in its persist,
\* and the second run now crawls while the first stands before its insert
C13_Witness ==
    /\ pc[1] = "insert"
    /\ pc[2] = "detail"
    /\ http.route = "scrape_books"
    /\ http.status = 202
    /\ Active(1) /\ Active(2)

\* C14: a thread works on one genre at a time and takes them in the order of
\* the request: the loop index starts at 1 and only ever moves by one, from
\* the sleep of line 174; the end of a genre's crawl, with books or with a
\* failed listing, leads to that sleep (or to an exception that ends the
\* thread), and the crawl of the next genre starts from nowhere else.
C14_DelayBetweenGenres ==
    /\ [](\A w \in Workers :
            /\ pc[w] \in CrawlPcs => gi[w] \in 1..Len(genres[w])
            /\ pc[w] = "detail" => pending[w] # <<>> /\ gi[w] \notin skipped[w]
            /\ pc[w] \in {"listing", "sleep"} => pending[w] = <<>> /\ books[w] = <<>>)
    /\ [][\A w \in Workers :
            /\ gi'[w] # gi[w] =>
                   \/ pc[w] = "none" /\ gi'[w] = 1 /\ pc'[w] = "listing"
                   \/ pc[w] = "sleep" /\ gi'[w] = gi[w] + 1 /\ pc'[w] = "listing"
            /\ (pc'[w] = "listing" /\ pc[w] # "listing") => pc[w] \in {"none", "sleep"}
            /\ (pc[w] \in {"listing", "detail"} /\ pc'[w] \notin {"listing", "detail"}) =>
                   pc'[w] \in {"sleep", "raised_crawl"}
            /\ (pc[w] = "listing" /\ skipped'[w] # skipped[w]) =>
                   pc'[w] = "sleep" /\ skipped'[w] = skipped[w] \cup {gi[w]}
            /\ genres'[w] # genres[w] => pc[w] = "none"]_vars

\* the first genre's listing failed, the sleep after it has returned and the
\* crawl of the second genre is at its books
C14_Witness ==
    \E w \in Workers :
        /\ genres[w] = <<"poetry", "fiction">>
        /\ gi[w] = 2
        /\ skipped[w] = {1}
        /\ pc[w] = "detail"
        /\ Len(pending[w]) = 2

Size(coll) == Cardinality(DOMAIN coll)

\* C15: remove_by_ID takes at most one document out of the collection and
\* leaves the other documents, the indexes and the threads as they were;
\* get_selected_books leaves the store as it was.  So the collection grows
\* only at an insert_many, by the length of the batch, and shrinks only at a
\* remove_by_ID that answers "Book removed", by one.
C15_FrameOfReadAndDelete ==
    [][/\ \A raw \in RawIds :
            (http'.route = "remove_by_ID" /\ remove_by_ID(raw, TRUE)) =>
                /\ Size(collection') >= Size(collection) - 1
                /\ \A i \in DOMAIN collection' : i \in DOMAIN collection /\ collection'[i] = collection[i]
                /\ UNCHANGED <<indexes, nextId, worker>>
                /\ (http'.message = "Book removed") <=> (Size(collection') = Size(collection) - 1)
       /\ (http'.route = "get_selected_books" /\ get_selected_books(TRUE)) => UNCHANGED <<store, worker>>
       /\ Size(collection') > Size(collection) =>
              \E w \in Workers :
                  /\ pc[w] = "insert" /\ pc'[w] = "create"
                  /\ Size(collection') = Size(collection) + Len(BatchHanded(w))
                  /\ \A i \in DOMAIN collection : i \in DOMAIN collection' /\ collection'[i] = collection[i]
       /\ Size(collection') < Size(collection) =>
              /\ Size(collection') = Size(collection) - 1
              /\ http'.route = "remove_by_ID"
              /\ http'.message = "Book removed"
              /\ UNCHANGED worker]_vars

\* two runs have persisted one document each, one of the two was removed:
\* the other and the text index are still there
C15_Witness ==
    /\ http.route = "remove_by_ID"
    /\ http.message = "Book removed"
    /\ nextId = 3
    /\ Size(collection) = 1
    /\ indexes = {IdIndex, TextIndex}

\* the threads whose insert_many has returned
HasInserted(w) == calls[w] = 1 /\ pc[w] \in {"create", "done"}

\* two threads are both between their drop_indexes and their create_index
Racing ==
    \E a, b \in Workers : a # b /\ pc[a] \in {"insert", "create"} /\ pc[b] \in {"insert", "create"}

\* C16: in every state of every interleaving of the threads' drop_indexes,
\* insert_many and create_index steps the collection holds, deletes apart,
\* exactly the rows of the batches whose insert_many has returned, each row
\* once; every create_index that returns leaves the text index as the only
\* index beside the one on _id, so when all persists have completed all the
\* batches are stored and that one text index exists.
C16_ConcurrentPersistsComplete ==
    /\ [](NoDeletes => DocBag(collection) = BatchesOf({w \in Workers : HasInserted(w)}))
    /\ []((Quiescent /\ \E w \in Workers : Persisted(w)) =>
              /\ indexes = {IdIndex, TextIndex}
              /\ \A w \in Workers : calls[w] = 1 => HasInserted(w))
    /\ [][\A w \in Workers :
            (pc[w] = "create" /\ create_index(w, TRUE)) => indexes' = {IdIndex, TextIndex}]_vars

\* both persists have completed; the thread started second inserted first, so
\* its persist began before the other's insert_many
C16_Witness ==
    /\ Persisted(1) /\ genres[1] = <<"fiction">>
    /\ Persisted(2) /\ genres[2] = <<"poetry">>
    /\ NoDeletes /\ nextId = 3
    /\ collection[1]["category"] = Str("poetry")
    /\ collection[2]["category"] = Str("fiction")
    /\ indexes = {IdIndex, TextIndex}

\* a state in the middle of the race: both threads have dropped the indexes
\* and inserted, neither has rebuilt the text index
C16_WitnessRace ==
    /\ pc[1] = "create" /\ pc[2] = "create"
    /\ Size(collection) = 2
    /\ indexes = {IdIndex}

\* the same as a property of the behaviours in which the race happens
C16_AfterRace ==
    [](Racing => []((Quiescent /\ NoDeletes) =>
                      /\ DocBag(collection) = BatchesOf({w \in Workers : Persisted(w)})
                      /\ indexes = {IdIndex, TextIndex}))

\* C17: place_book_in_mongo is no transaction.  drop_indexes leaves only the
\* index on _id; a failing insert_many or create_index changes nothing in the
\* store and ends the thread where it is, so after a failed insert_many the
\* documents are the earlier ones, and after a failed create_index the batch
\* stays inserted; in both cases the text index that was dropped comes back
\* only when some create_index returns, that is when a persist completes.
C17_PersistNotAtomic ==
    /\ [](\A w \in Workers :
            /\ NoDeletes =>
                   DocBag(collection) =
                       BatchesOf({u \in Workers : calls[u] = 1 /\ pc[u] \in {"create", "done", "raised_create"}})
            /\ (pc[w] \in {"insert", "create", "raised_insert", "raised_create"}
                   /\ \A u \in Workers \ {w} : ~ Persisted(u)) => TextIndex \notin indexes)
    /\ [][/\ \A w \in Workers :
              /\ (pc[w] = "drop" /\ pc'[w] = "insert") => indexes' = {IdIndex}
              /\ (pc[w] = "insert" /\ pc'[w] = "raised_insert") => UNCHANGED store
              /\ (pc[w] = "create" /\ pc'[w] = "raised_create") => UNCHANGED store
              /\ pc[w] \in {"raised_insert", "raised_create"} => pc'[w] = pc[w]
          /\ (TextIndex \notin indexes /\ TextIndex \in indexes') =>
                 \E w \in Workers : pc[w] = "create" /\ pc'[w] = "done"]_vars

\* a first persist completed, the second dropped the indexes and failed at
\* insert_many: the first batch is all there is, and the text index is gone
C17_Witness ==
    /\ Persisted(1)
    /\ pc[2] = "raised_insert"
    /\ NoDeletes /\ nextId = 2
    /\ collection = Inserted(<<>>, 1, books_list(all_books[1]))
    /\ indexes = {IdIndex}

\* the second persist failed at create_index: both batches are inserted and
\* there is no text index
C17_WitnessCreate ==
    /\ Persisted(1)
    /\ pc[2] = "raised_create"
    /\ NoDeletes /\ nextId = 3
    /\ DocBag(collection) = BatchesOf({1, 2})
    /\ indexes = {IdIndex}

\* a thread that has not yet reached the insert_many of its persist
BeforeInsert(w) == pc[w] \in CrawlPcs \cup {"drop", "insert"}

\* C18: while the run is at its genres, and until the insert_many of its
\* persist, none of its records is in the collection: the collection is as it
\* was before the trigger, the steps of the crawl leave the store alone, and
\* a get_selected_books issued meanwhile returns none of the books the run
\* already holds in all_books.
C18_NothingVisibleBeforeLastGenre ==
    /\ [](\A w \in Workers : BeforeInsert(w) =>
            /\ collection = <<>> /\ nextId = 1
            /\ (http.route = "get_selected_books" /\ http.status = 200) => http.rows = <<>>)
    /\ [][\A w \in Workers :
            (pc[w] \in CrawlPcs /\ pc'[w] # "insert") => UNCHANGED <<collection, nextId>>]_vars

\* the run holds the first genre's books and is at the second genre's; a read
\* issued now has returned nothing
C18_Witness ==
    \E w \in Workers :
        /\ pc[w] = "detail"
        /\ gi[w] = 2
        /\ Len(all_books[w]) = 2
        /\ http.route = "get_selected_books"
        /\ http.status = 200
        /\ http.rows = <<>>

\* among other runs and deletes: the steps of a crawl leave the store alone,
\* and every document of the collection is a row of the batch of a thread
\* whose insert_many has returned
C18_AmongOtherRuns ==
    /\ [](\A i \in DOMAIN collection :
            \E u \in Workers :
                /\ HasInserted(u)
                /\ \E n \in 1..Len(all_books[u]) : collection[i] = books_list(all_books[u])[n])
    /\ [][\A w \in Workers :
            (pc[w] \in CrawlPcs /\ pc'[w] # pc[w]) => UNCHANGED store]_vars

====
